---- MODULE Spec2Model ----
(***************************************************************************)
(* Routing / failover core of prompt-learning-server.                      *)
(*                                                                         *)
(* Two load balancers with the same shape are modelled by one state        *)
(* machine; the variable `variant` says which file the behaviour follows:  *)
(*   "main" : InternalLoadBalancer of main-worker.js                       *)
(*   "lb"   : ImageGenerationLoadBalancer of src/loadbalancer.js           *)
(* Workers are numbered 1..NumWorkers in the order of the pool array.      *)
(* JavaScript is single threaded: everything between two awaits is one     *)
(* action.                                                                 *)
(***************************************************************************)
EXTENDS Integers, Sequences, FiniteSets, TLC

\* ---------------------------------------------------------------- bounds
\* Size of the backend pool (20 in both files), scaled down.
NumWorkers == 3
\* Direct calls of the selection method in one behaviour.
MaxSelects == 4
\* Direct calls of the marking method in one behaviour.
MaxMarks == 3
\* Key variables read per provider: 7 for image generation, scaled down; the
\* comparison provider has one more (8).
NumKeySlots == 3
\* Calls of one key-rotation function in one behaviour.
MaxKeyCalls == 4
\* addServer / removeServer calls in one behaviour.
MaxPoolOps == 3
\* Date.now() when the key manager is constructed.
StartTime == 1000
\* Time between the instants at which acquire requests arrive.
ArrivalStep == 10000
\* No acquire request arrives after this clock reading.
MaxClock == 71000

\* ------------------------------------------------------- program constants
\* main-worker.js: const maxRetries = 3
maxRetries == 3
\* loadbalancer.js: Math.min(this.servers.length, 3)
MaxServersTried == 3
\* main-worker.js: setTimeout(..., 2 * 60 * 1000), in ms
FailWindowMain == 120000
\* loadbalancer.js: setTimeout(..., 5 * 60 * 1000), in ms
FailWindowLB == 300000
\* main-worker.js: prompt.length <= 1000
MaxPromptLen == 1000
\* keyManager.js: acquireKeyWithWait(30000, 1000) and the expiry of an
\* active key.
maxWaitMs == 30000
pollIntervalMs == 1000
expiryTime == 60000

\* What an out-of-range array read yields in JavaScript.
Undefined == 0

Variants == {"main", "lb"}
Workers == 1..NumWorkers
\* Two requests are followed, each from its start to its end; in
\* loadbalancer.js they run concurrently on the one shared balancer.
Slots == {1, 2}

VARIABLES
  variant,        \* which load balancer this behaviour follows
  pool,           \* this.workerBindings / this.servers
  currentIndex,   \* this.currentIndex / this.currentServerIndex
  failedWorkers,  \* this.failedWorkers / this.failedServers
  timers,         \* pending setTimeout callbacks, in creation order
  serverStats,    \* this.serverStats (loadbalancer.js only)
  req,            \* the requests: position in forwardRequest / generateImage
  selLog,         \* history: the direct selection calls, with the state each saw
  nSelects,       \* direct selection calls made
  nMarks,         \* direct marking calls made
  clean,          \* history: no backend attempt has failed so far
  keyEnv,         \* env.IMAGE_ROUTER_API_KEY_n / env.COMPARISON_API_KEY_n
  apiKeyIndex,    \* let apiKeyIndex of a worker instance
  comparisonKeyIndex,  \* let comparisonKeyIndex of a worker instance
  keyLog,         \* history: what each key call returned, per provider
  statLog,        \* history: what each getStatus() call saw and returned
  timerIns,       \* history: per pending timer, did its marking insert w
  nPoolOps,       \* addServer / removeServer calls made
  gen,            \* the calls of generateImage(prompt, env) in a worker
  providerCalls,  \* fetch(API_URL) calls issued by the worker so far
  kmInitialized,  \* keyManager.initialized
  kmKeys,         \* keyManager.keys
  kmReq,          \* the acquire-key requests: position in acquireKeyWithWait
  now             \* Date.now()

lbVars == <<pool, currentIndex, failedWorkers, timers, serverStats>>
keyVars == <<keyEnv, apiKeyIndex, comparisonKeyIndex, keyLog>>
genVars == <<gen, providerCalls>>
kmVars == <<kmInitialized, kmKeys, kmReq, now>>
extVars == <<statLog, timerIns, nPoolOps, genVars, kmVars>>
vars == <<variant, pool, currentIndex, failedWorkers, timers, serverStats,
          req, selLog, nSelects, nMarks, clean, keyEnv, apiKeyIndex,
          comparisonKeyIndex, keyLog, statLog, timerIns, nPoolOps, gen,
          providerCalls, kmInitialized, kmKeys, kmReq, now>>

\* ------------------------------------------------------------ array helpers
At(seq, i) == IF i \in 1..Len(seq) THEN seq[i] ELSE Undefined

RECURSIVE Filter(_, _)
\* Array.prototype.filter(x => !failed.has(x)): keeps the array's order.
Filter(seq, failed) ==
  IF seq = <<>> THEN <<>>
  ELSE IF Head(seq) \in failed THEN Filter(Tail(seq), failed)
       ELSE <<Head(seq)>> \o Filter(Tail(seq), failed)

Range(seq) == {seq[i] : i \in 1..Len(seq)}

\* ------------------------------------------------------------- selection
\* Faulty variant: the cursor is taken modulo the full pool and the pick is
\* read from the unfiltered array.
getNextWorker_Unfiltered(servers, index, failed) ==
  [worker |-> At(servers, (index % Len(servers)) + 1),
   index  |-> index + 1,
   failed |-> failed]

\* Faulty variant: the cursor walks the whole pool and a failed pick is
\* replaced by the first available worker.
getNextWorker_PoolModulo(servers, index, failed) ==
  LET availableWorkers == Filter(servers, failed)
      pick == At(servers, (index % Len(servers)) + 1)
  IN
  IF Len(availableWorkers) = 0
  THEN [worker |-> At(servers, 1), index |-> index, failed |-> {}]
  ELSE [worker |-> IF pick \in failed THEN availableWorkers[1] ELSE pick,
        index  |-> index + 1,
        failed |-> failed]

\* Faulty variant: the all-failed branch keeps the failed set.
getNextWorker_NoReset(servers, index, failed) ==
  LET availableWorkers == Filter(servers, failed) IN
  IF Len(availableWorkers) = 0
  THEN [worker |-> At(servers, 1), index |-> index, failed |-> failed]
  ELSE [worker |-> availableWorkers[(index % Len(availableWorkers)) + 1],
        index  |-> index + 1,
        failed |-> failed]

\* Faulty variant: the cursor advances by two.
getNextWorker_Skip(servers, index, failed) ==
  LET availableWorkers == Filter(servers, failed) IN
  IF Len(availableWorkers) = 0
  THEN [worker |-> At(servers, 1), index |-> index, failed |-> {}]
  ELSE [worker |-> availableWorkers[(index % Len(availableWorkers)) + 1],
        index  |-> index + 2,
        failed |-> failed]

\* getNextWorker() / getNextServer(): the worker returned and the cursor and
\* failed set it leaves behind.
getNextWorker(servers, index, failed) ==
  LET availableWorkers == Filter(servers, failed) IN
  IF Len(availableWorkers) = 0
  THEN [worker |-> At(servers, 1), index |-> index, failed |-> {}]
  ELSE [worker |-> availableWorkers[(index % Len(availableWorkers)) + 1],
        index  |-> index + 1,
        failed |-> failed]

\* ---------------------------------------------------------------- marking
FailWindow(v) == IF v = "main" THEN FailWindowMain ELSE FailWindowLB

\* Faulty variant: the worker is added but no restore timer is started.
setRestoreTimer_None(tmrs, w, window) == tmrs

\* setTimeout(() => failed.delete(w), window): one more pending callback.
setRestoreTimer(tmrs, w, window) == Append(tmrs, [w |-> w, delay |-> window])

\* stats.failures++ of markServerFailed (loadbalancer.js only).
BumpFailures(stats, w) ==
  IF w \in DOMAIN stats
  THEN [stats EXCEPT ![w].failures = @ + 1]
  ELSE stats

\* markWorkerFailed(w) / markServerFailed(w) on a load balancer state.
markWorkerFailed(v, failed, tmrs, stats, w) ==
  [failed |-> failed \cup {w},
   timers |-> setRestoreTimer(tmrs, w, FailWindow(v)),
   stats  |-> IF v = "lb" THEN BumpFailures(stats, w) ELSE stats]


\* ---------------------------------------------------------------- strings
\* A JavaScript string is a sequence of UTF-16 code units; the units the
\* code treats differently are: "a" (unreserved in a URI component), " "
\* (white space: trimmed at the ends, escaped inside), "/" (reserved: escaped)
\* and "<D83D>" (a high surrogate with no low surrogate after it).
LoneSurrogate == "<D83D>"

TrimStart(s) ==
  LET kept == {i \in 1..Len(s) : \E j \in 1..i : s[j] # " "} IN
  SubSeq(s, Len(s) - Cardinality(kept) + 1, Len(s))

TrimEnd(s) ==
  LET kept == {i \in 1..Len(s) : \E j \in i..Len(s) : s[j] # " "} IN
  SubSeq(s, 1, Cardinality(kept))

\* String.prototype.trim()
Trim(s) == TrimEnd(TrimStart(s))

\* The escape of one code unit by encodeURIComponent.
EncodeUnit(c) ==
  CASE c = " " -> <<"%", "2", "0">>
    [] c = "/" -> <<"%", "2", "F">>
    [] OTHER -> <<c>>

RECURSIVE encodeURIComponent(_)
\* encodeURIComponent(s) for a well-formed s: the escapes of its units, in
\* order (computed by halves).
encodeURIComponent(s) ==
  IF Len(s) = 0 THEN <<>>
  ELSE IF Len(s) = 1 THEN EncodeUnit(s[1])
  ELSE LET h == Len(s) \div 2 IN
       encodeURIComponent(SubSeq(s, 1, h)) \o encodeURIComponent(SubSeq(s, h + 1, Len(s)))

\* Whether s is well-formed UTF-16.
WellFormed(s) == \A i \in 1..Len(s) : s[i] # LoneSurrogate

\* 'a'.repeat(n)
Repeat(c, n) == [i \in 1..n |-> c]

\* --------------------------------------------------------------- payloads
\* A request body as forwardRequest sees it.  type "nojson": clone.json()
\* rejects and originalRequestBody stays null.  Otherwise the value of
\* body.prompt: its typeof, and for a string its text, its length, the length
\* of prompt.trim() and whether it is well-formed UTF-16 (encodeURIComponent
\* throws URIError on a lone surrogate).
Payload(t, text) ==
  [type |-> t, text |-> text, len |-> Len(text), trimLen |-> Len(Trim(text)),
   wellFormed |-> WellFormed(text)]
NoBody == Payload("nojson", <<>>)
Payloads ==
  { NoBody,
    Payload("undefined", <<>>),                          \* {}
    Payload("number", <<>>),                             \* {prompt: 123}
    Payload("string", <<>>),                             \* {prompt: ""}
    Payload("string", <<" ", " ", " ">>),                \* {prompt: "   "}
    Payload("string", <<" ", "a", " ", "a", "/", "a", " ">>),   \* {prompt: " a a/a "}
    Payload("string", Repeat("a", MaxPromptLen)),
    Payload("string", Repeat("a", MaxPromptLen + 1)),
    Payload("string", <<LoneSurrogate>>) }               \* {prompt: "\ud83d"}

\* JavaScript truthiness of body.prompt.
Truthy(p) ==
  CASE p.type = "string" -> p.len > 0
    [] p.type = "number" -> TRUE
    [] OTHER -> FALSE

\* The operations routed.  main-worker.js forwards any /api/ request;
\* loadbalancer.js has generateImage and compareImages, both POSTs.
Op(m, p) == [method |-> m, path |-> p]
GenerateOp == Op("POST", "/api/generate-image")
CompareOp == Op("POST", "/api/compare-images")
OpsOf(v) ==
  IF v = "main"
  THEN {GenerateOp, CompareOp, Op("GET", "/api/generate-image"), Op("GET", "/api/health")}
  ELSE {GenerateOp, CompareOp}

\* ------------------------------------------------------------- responses
NoError == [attempt |-> 0, worker |-> Undefined, kind |-> "none"]
NoOut == [kind |-> "none", status |-> 0, success |-> FALSE, fallback |-> FALSE,
          worker |-> Undefined, attempt |-> 0, prompt |-> NoBody, imageUrl |-> <<>>,
          details |-> NoError]

\* The backend's own response, handed up unchanged (main-worker.js), or its
\* JSON tagged with serverUsed and attempt (loadbalancer.js).
BackendOut(w, a) ==
  [NoOut EXCEPT !.kind = "backend", !.status = 200, !.success = TRUE,
                !.worker = w, !.attempt = a]

\* `https://image.pollinations.ai/prompt/`, kept as one unit.
PollinationsPrefix == <<"https://image.pollinations.ai/prompt/">>

\* Faulty variant: the prompt is encoded without being trimmed.
FallbackOut_Untrimmed(body) ==
  [NoOut EXCEPT !.kind = "fallback", !.status = 200, !.success = TRUE,
                !.fallback = TRUE, !.prompt = body,
                !.imageUrl = PollinationsPrefix \o encodeURIComponent(body.text)]

\* main-worker.js: the local Pollinations response: imageUrl built from the
\* trimmed prompt, the prompt echoed as received.
FallbackOut(body) ==
  [NoOut EXCEPT !.kind = "fallback", !.status = 200, !.success = TRUE,
                !.fallback = TRUE, !.prompt = body,
                !.imageUrl = PollinationsPrefix \o encodeURIComponent(Trim(body.text))]

\* main-worker.js: 503 'All internal workers unavailable';
\* loadbalancer.js: the thrown 'All N server attempts failed'.
UnavailableOut(v, err) ==
  [NoOut EXCEPT !.kind = IF v = "main" THEN "unavailable" ELSE "thrown",
                !.status = IF v = "main" THEN 503 ELSE 0,
                !.details = err]

\* loadbalancer.js: the loop body never ran and the async function resolves
\* with undefined.
UndefinedOut == [NoOut EXCEPT !.kind = "undefined"]

\* ---------------------------------------------------------------- fallback
\* Faulty variant: the fallback is offered to every operation.
FallbackEligible_Any(op) == TRUE

\* url.pathname === '/api/generate-image' && request.method === 'POST'
FallbackEligible(op) == op.path = "/api/generate-image" /\ op.method = "POST"

\* prompt && typeof prompt === 'string' && prompt.trim().length > 0
\*        && prompt.length <= 1000
PromptOk(body) ==
  /\ Truthy(body)
  /\ body.type = "string"
  /\ body.trimLen > 0
  /\ body.len <= MaxPromptLen

\* encodeURIComponent(prompt.trim()) throws URIError on malformed UTF-16; the
\* surrounding try/catch then falls through to the 503.
EncodeThrows(body) == ~body.wellFormed

\* What forwardRequest returns once the retry loop has ended without success.
Exhausted(op, body, err) ==
  IF FallbackEligible(op) /\ PromptOk(body) /\ ~EncodeThrows(body)
  THEN FallbackOut(body)
  ELSE UnavailableOut("main", err)


\* ---------------------------------------------------------------- requests
\* okAt: the number of the call that got a success status (0: none yet).
\* failedOn: the worker of each failed attempt, in order.  markedOn: for each
\* failed attempt, whether its catch block marked the worker as failed.
\* timed: whether the call in flight was issued with a timeout signal.
\* seenFailed: until the first call of the request has settled, the failed set
\* as it stood when the request arrived.
\* bodyUsed: request.bodyUsed of the inbound request.  nCapture: reads of the
\* body into originalRequestBody.  sent: for each backend call, whether the
\* request passed to fetch carried the inbound body, unread.
IdleReq ==
  [pc |-> "idle", op |-> GenerateOp, bodyIn |-> NoBody, body |-> NoBody,
   bodyUsed |-> FALSE, nCapture |-> 0, sent |-> <<>>,
   attempt |-> 0, maxAttempts |-> 0, worker |-> Undefined, lastError |-> NoError,
   nSel |-> 0, nCall |-> 0, okAt |-> 0, failedOn |-> <<>>, markedOn |-> <<>>,
   timed |-> FALSE, seenFailed |-> {}, out |-> NoOut]

Min(a, b) == IF a <= b THEN a ELSE b

\* A request that has returned is in "done" until its caller's continuation
\* has run.  That continuation is a microtask: it runs before any other
\* callback (a settled fetch, a timer, a new request) of the event loop.
NoneReturning == \A s \in Slots : req[s].pc # "done"

\* Faulty variant: one attempt more than the bound.
MaxAttempts_OneMore(v, servers) == maxRetries + 1

\* Faulty variant: the loop gives up one attempt before the bound.
MaxAttempts_OneLess(v, servers) == maxRetries - 1

\* The number of attempts one request may make.
\* main-worker.js: maxRetries; loadbalancer.js: Math.min(servers.length, 3).
MaxAttempts(v, servers) ==
  IF v = "main" THEN maxRetries ELSE Min(Len(servers), MaxServersTried)

\* The loop variable's first value: attempt = 1 in main-worker.js, 0 in
\* loadbalancer.js.
FirstAttempt(v) == IF v = "main" THEN 1 ELSE 0

\* Faulty variant: the loop never ends.
LastAttempt_Never(v, rq) == FALSE

\* Whether the attempt that just failed was the last one.
\* main-worker.js: the loop ends when attempt <= maxRetries fails;
\* loadbalancer.js: attempt === maxAttempts - 1.
LastAttempt(v, rq) ==
  IF v = "main" THEN ~(rq.attempt + 1 <= rq.maxAttempts)
  ELSE rq.attempt = rq.maxAttempts - 1

\* How a backend call can end.  "ok": a success status.  "http": another
\* status.  "throw": the call rejects.  "timeout": AbortSignal.timeout fires
\* (loadbalancer.js).  "slow": any other error seen after more than `timeout`
\* ms (loadbalancer.js).  "rejected": the worker's 400 validation response
\* (told apart from the other statuses in main-worker.js only).
CallOutcomes(v) ==
  IF v = "main" THEN {"ok", "http", "throw", "rejected"}
  ELSE {"ok", "http", "throw", "timeout", "slow"}

\* workers/worker.js handleGenerateImage: the body is not JSON, or prompt is
\* missing, not a string, empty after trim() or longer than 1000.
WorkerRejects(body) ==
  \/ body.type = "nojson"
  \/ ~Truthy(body)
  \/ body.type # "string"
  \/ body.trimLen = 0
  \/ body.len > MaxPromptLen

\* What a worker can answer to the request forwarded by main-worker.js.  For
\* POST /api/generate-image the validation runs before anything else: a body
\* it rejects gets the 400 (unless the worker cannot be reached), a body it
\* accepts gets 200 or, when generateImage throws (no API key configured,
\* provider error), 500.  Other routes: any status but the validation one.
WorkerOutcomes(op, body) ==
  IF op = GenerateOp /\ WorkerRejects(body) THEN {"rejected", "throw"}
  ELSE {"ok", "http", "throw"}

\* Whether the backend call is issued with a timeout signal.
\* loadbalancer.js: signal: AbortSignal.timeout(timeout); main-worker.js:
\* env[workerBinding].fetch(request.clone()), no signal.
CallTimed(v) == v = "lb"

\* Faulty variant: only the first error of the request is kept.
RecordError_KeepFirst(prev, err) == IF prev = NoError THEN err ELSE prev

\* main-worker.js: lastError = error
RecordError(prev, err) == err

\* How reading the body of a success response can end (loadbalancer.js).
JsonOutcomes == {"json", "badjson", "timeout"}

\* Whether the catch block marks the worker as failed.
\* main-worker.js: if (attempt < maxRetries) markWorkerFailed(...)
\* loadbalancer.js: if (error.name === 'TimeoutError' || responseTime > timeout)
ShouldMark(v, rq, kind) ==
  IF v = "main" THEN rq.attempt < maxRetries
  ELSE kind \in {"timeout", "slow"}

\* updateServerStats(serverUrl, responseTime, success) of loadbalancer.js.
updateServerStats(stats, w, success) ==
  IF w \in DOMAIN stats
  THEN [stats EXCEPT ![w].requests = @ + 1,
                     ![w].failures = IF success THEN @ ELSE @ + 1]
  ELSE stats

\* Faulty variant: the inbound request itself is passed to fetch, which
\* reads its body.
Forwarded_Original(rq) == [intact |-> ~rq.bodyUsed, usesOriginal |-> TRUE]

\* main-worker.js: what env[workerBinding].fetch is given, request.clone():
\* a copy whose body is the inbound one as long as that has not been read;
\* reading the copy leaves the inbound request unread.
Forwarded(rq) == [intact |-> ~rq.bodyUsed, usesOriginal |-> FALSE]

\* The head of the retry loop, run from balancer state (idx, failed, tmrs,
\* stats): one selection, then the backend call is issued.
IssueAttempt(r, rq, a, idx, failed, tmrs, stats) ==
  LET sel == getNextWorker(pool, idx, failed)
      fwd == Forwarded(rq)
  IN
  /\ currentIndex' = sel.index
  /\ failedWorkers' = sel.failed
  /\ timers' = tmrs
  /\ serverStats' = stats
  /\ req' = [req EXCEPT ![r] =
               [rq EXCEPT !.pc = "calling", !.attempt = a, !.worker = sel.worker,
                          !.nSel = @ + 1, !.nCall = @ + 1,
                          !.timed = CallTimed(variant),
                          !.sent = IF variant = "main"
                                   THEN Append(@, fwd.intact) ELSE @,
                          !.bodyUsed = IF variant = "main"
                                       THEN @ \/ fwd.usesOriginal ELSE @]]

\* The request ends with `out`; the balancer is left as (idx, failed, tmrs, stats).
Finish(r, rq, out, idx, failed, tmrs, stats) ==
  /\ req' = [req EXCEPT ![r] = [rq EXCEPT !.pc = "done", !.out = out,
                                          !.timed = FALSE, !.seenFailed = {}]]
  /\ currentIndex' = idx
  /\ failedWorkers' = failed
  /\ timers' = tmrs
  /\ serverStats' = stats

\* The catch block of the retry loop, for a failure of kind `kind`, and what
\* follows it: the next turn of the loop, or the code after the loop.
Catch(r, kind) ==
  LET rq0 == req[r]
      err == [attempt |-> rq0.attempt, worker |-> rq0.worker, kind |-> kind]
      st1 == IF variant = "lb" THEN updateServerStats(serverStats, rq0.worker, FALSE)
             ELSE serverStats
      mark == ShouldMark(variant, rq0, kind)
      m == markWorkerFailed(variant, failedWorkers, timers, st1, rq0.worker)
      failed == IF mark THEN m.failed ELSE failedWorkers
      tmrs == IF mark THEN m.timers ELSE timers
      stats == IF mark THEN m.stats ELSE st1
      rq == [rq0 EXCEPT !.lastError = IF variant = "main" THEN RecordError(@, err) ELSE @,
                        !.failedOn = Append(@, rq0.worker),
                        !.markedOn = Append(@, mark),
                        !.seenFailed = {}]
  IN IF LastAttempt(variant, rq0)
     THEN Finish(r, rq,
                 IF variant = "main" THEN Exhausted(rq.op, rq.body, rq.lastError)
                 ELSE [UnavailableOut("lb", err) EXCEPT !.attempt = rq.maxAttempts],
                 currentIndex, failed, tmrs, stats)
     ELSE IssueAttempt(r, rq, rq0.attempt + 1, currentIndex, failed, tmrs, stats)

\* main-worker.js handleRequest for an /api/ path: a new InternalLoadBalancer
\* is constructed for this request, then forwardRequest runs up to its first
\* await: clone.json() for a POST, the first backend call otherwise.  The
\* balancers of two requests share nothing, so the second request is followed
\* once the first has ended.
HandleRequest(r, op, b) ==
  /\ variant = "main"
  /\ NoneReturning
  /\ req[r].pc = "idle"
  /\ \A s \in Slots : s < r => req[s].pc = "returned"
  /\ LET rq == [IdleReq EXCEPT !.op = op, !.bodyIn = b,
                               !.maxAttempts = MaxAttempts(variant, pool),
                               !.seenFailed = failedWorkers]
     IN IF op.method = "POST"
        THEN /\ req' = [req EXCEPT ![r] = [rq EXCEPT !.pc = "reading"]]
             /\ currentIndex' = 0
             /\ failedWorkers' = {}
             /\ timers' = <<>>
             /\ UNCHANGED serverStats
        ELSE IssueAttempt(r, rq, FirstAttempt(variant), 0, {}, <<>>, serverStats)
  /\ selLog' = <<>>
  /\ UNCHANGED <<extVars, variant, pool, nSelects, nMarks>>
  /\ UNCHANGED <<clean, keyVars>>

\* main-worker.js: clone.json() settles; the snapshot is the parsed body, or
\* stays null when the body is not JSON.  The body read is the clone's: the
\* inbound request stays unread.  The loop then starts.
ReadBody(r) ==
  /\ variant = "main"
  /\ NoneReturning
  /\ req[r].pc = "reading"
  /\ IssueAttempt(r, [req[r] EXCEPT !.body = req[r].bodyIn, !.nCapture = @ + 1],
                  FirstAttempt(variant),
                  currentIndex, failedWorkers, timers, serverStats)
  /\ UNCHANGED <<extVars, variant, pool, selLog, nSelects, nMarks>>
  /\ UNCHANGED <<clean, keyVars>>

\* main-worker.js: env[workerBinding].fetch(...) settles.
ForwardReturns(r, o) ==
  /\ variant = "main"
  /\ NoneReturning
  /\ req[r].pc = "calling"
  /\ o \in CallOutcomes(variant) \cap WorkerOutcomes(req[r].op, req[r].bodyIn)
  /\ IF o = "ok"
     THEN Finish(r, [req[r] EXCEPT !.okAt = req[r].nCall],
                 BackendOut(req[r].worker, req[r].attempt),
                 currentIndex, failedWorkers, timers, serverStats)
     ELSE Catch(r, o)
  /\ UNCHANGED <<extVars, variant, pool, selLog, nSelects, nMarks>>
  /\ clean' = (clean /\ o = "ok")
  /\ UNCHANGED keyVars

\* loadbalancer.js generateImage / compareImages up to the first fetch.
StartLB(r, op) ==
  /\ variant = "lb"
  /\ NoneReturning
  /\ req[r].pc = "idle"
  /\ \A s \in Slots : s < r => req[s].pc # "idle"
  /\ LET rq == [IdleReq EXCEPT !.op = op, !.maxAttempts = MaxAttempts(variant, pool),
                               !.seenFailed = failedWorkers]
     IN IF FirstAttempt(variant) < rq.maxAttempts
        THEN IssueAttempt(r, rq, FirstAttempt(variant), currentIndex, failedWorkers,
                          timers, serverStats)
        ELSE Finish(r, rq, UndefinedOut, currentIndex, failedWorkers, timers,
                    serverStats)
  /\ UNCHANGED <<extVars, variant, pool, selLog, nSelects, nMarks>>
  /\ UNCHANGED <<clean, keyVars>>

\* loadbalancer.js: fetch settles; on a success status response.json() is awaited.
FetchReturns(r, o) ==
  /\ variant = "lb"
  /\ NoneReturning
  /\ req[r].pc = "calling"
  /\ o \in CallOutcomes(variant)
  /\ IF o = "ok"
     THEN /\ req' = [req EXCEPT ![r].pc = "parsing", ![r].okAt = req[r].nCall,
                                ![r].seenFailed = {}]
          /\ UNCHANGED <<currentIndex, failedWorkers, timers, serverStats>>
     ELSE Catch(r, o)
  /\ UNCHANGED <<extVars, variant, pool, selLog, nSelects, nMarks>>
  /\ clean' = (clean /\ o = "ok")
  /\ UNCHANGED keyVars

\* loadbalancer.js: response.json() settles.
JsonReturns(r, o) ==
  /\ variant = "lb"
  /\ NoneReturning
  /\ req[r].pc = "parsing"
  /\ o \in JsonOutcomes
  /\ IF o = "json"
     THEN Finish(r, req[r], BackendOut(req[r].worker, req[r].attempt + 1),
                 currentIndex, failedWorkers, timers,
                 updateServerStats(serverStats, req[r].worker, TRUE))
     ELSE Catch(r, o)
  /\ UNCHANGED <<extVars, variant, pool, selLog, nSelects, nMarks>>
  /\ clean' = (clean /\ o = "json")
  /\ UNCHANGED keyVars

\* The caller's continuation runs with the result; the request is over.
Returns(r) ==
  /\ req[r].pc = "done"
  /\ req' = [req EXCEPT ![r] = [IdleReq EXCEPT !.pc = "returned"]]
  /\ UNCHANGED <<extVars, variant, pool, currentIndex, failedWorkers, timers, serverStats,
                 selLog, nSelects, nMarks, clean, keyVars>>

\* ------------------------------------------------------- direct method calls
\* getNextWorker() / getNextServer() called on the balancer.  When `logged`,
\* the log keeps the failed set and cursor the call saw (f, i), what it
\* returned (r) and the failed set and cursor it left (g, j).
SelectCall(logged) ==
  /\ nSelects < MaxSelects
  /\ nSelects' = nSelects + 1
  /\ LET sel == getNextWorker(pool, currentIndex, failedWorkers) IN
     /\ currentIndex' = sel.index
     /\ failedWorkers' = sel.failed
     /\ selLog' = IF logged
                  THEN Append(selLog, [f |-> failedWorkers, i |-> currentIndex,
                                       r |-> sel.worker,
                                       g |-> sel.failed, j |-> sel.index])
                  ELSE selLog
  /\ UNCHANGED <<extVars, variant, pool, timers, serverStats, req, nMarks>>
  /\ UNCHANGED <<clean, keyVars>>

Select == SelectCall(TRUE)

\* The same call with no history kept.
SelectUnlogged == SelectCall(FALSE)

\* markWorkerFailed(w) / markServerFailed(w) called on the balancer.  A
\* tracked call also records, for the timer it starts, whether failed.add(w)
\* inserted w or found it already in the set.
MarkCall(w, tracked) ==
  /\ nMarks < MaxMarks
  /\ nMarks' = nMarks + 1
  /\ LET m == markWorkerFailed(variant, failedWorkers, timers, serverStats, w) IN
     /\ failedWorkers' = m.failed
     /\ timers' = m.timers
     /\ serverStats' = m.stats
  /\ timerIns' = IF tracked THEN Append(timerIns, w \notin failedWorkers)
                           ELSE timerIns
  /\ UNCHANGED <<statLog, nPoolOps, genVars, kmVars>>
  /\ UNCHANGED <<variant, pool, currentIndex, req, selLog, nSelects>>
  /\ UNCHANGED <<clean, keyVars>>

MarkFailed(w) == MarkCall(w, FALSE)
MarkFailedTracked(w) == MarkCall(w, TRUE)

\* --------------------------------------------------------- pool management
\* The servers addServer / removeServer are called with: the initial ones and
\* one more.
ServerIds == 1..(NumWorkers + 1)

\* The stats entry of a server at construction and after addServer.
NewStats == [requests |-> 0, failures |-> 0]

\* addServer(serverUrl): a server not in the list is pushed at its end and
\* given a new stats entry; a server in the list is left alone.
addServer(servers, stats, w) ==
  IF w \in Range(servers)
  THEN [servers |-> servers, stats |-> stats]
  ELSE [servers |-> Append(servers, w),
        stats |-> [x \in DOMAIN stats \cup {w} |->
                     IF x = w THEN NewStats ELSE stats[x]]]

\* removeServer(serverUrl): a server in the list is spliced out of it and
\* deleted from the stats and from the failed set.
removeServer(servers, stats, failed, w) ==
  IF w \in Range(servers)
  THEN [servers |-> Filter(servers, {w}),
        stats |-> [x \in DOMAIN stats \ {w} |-> stats[x]],
        failed |-> failed \ {w}]
  ELSE [servers |-> servers, stats |-> stats, failed |-> failed]

AddServer(w) ==
  /\ variant = "lb"
  /\ NoneReturning
  /\ nPoolOps < MaxPoolOps
  /\ nPoolOps' = nPoolOps + 1
  /\ LET a == addServer(pool, serverStats, w) IN
     /\ pool' = a.servers
     /\ serverStats' = a.stats
  /\ UNCHANGED <<statLog, timerIns, genVars, kmVars>>
  /\ UNCHANGED <<variant, currentIndex, failedWorkers, timers,
                 req, selLog, nSelects, nMarks, clean, keyVars>>

RemoveServer(w) ==
  /\ variant = "lb"
  /\ NoneReturning
  /\ nPoolOps < MaxPoolOps
  /\ nPoolOps' = nPoolOps + 1
  /\ LET d == removeServer(pool, serverStats, failedWorkers, w) IN
     /\ pool' = d.servers
     /\ serverStats' = d.stats
     /\ failedWorkers' = d.failed
  /\ UNCHANGED <<statLog, timerIns, genVars, kmVars>>
  /\ UNCHANGED <<variant, currentIndex, timers,
                 req, selLog, nSelects, nMarks, clean, keyVars>>

\* ------------------------------------------------------------------ timers
\* The delay of the oldest pending timer has elapsed and its callback runs:
\* failed.delete(w).  Every timer of one balancer has the same delay, so the
\* callbacks run in creation order.
TimerCall(tracked) ==
  /\ NoneReturning
  /\ timers # <<>>
  /\ failedWorkers' = failedWorkers \ {Head(timers).w}
  /\ timers' = Tail(timers)
  /\ timerIns' = IF tracked THEN Tail(timerIns) ELSE timerIns
  /\ UNCHANGED <<statLog, nPoolOps, genVars, kmVars>>
  /\ UNCHANGED <<variant, pool, currentIndex, serverStats,
                 req, selLog, nSelects, nMarks, clean, keyVars>>

TimerFires == TimerCall(FALSE)
TimerFiresTracked == TimerCall(TRUE)

\* ------------------------------------------------------------ key rotation
\* workers/worker.js: the two providers a worker holds keys for.
Providers == {"image", "comparison"}
KeySlots(p) == IF p = "image" THEN NumKeySlots ELSE NumKeySlots + 1

\* The configurations of one provider's variables: variable i holds key i or
\* is unset / empty (falsy).
KeyEnvs(p) ==
  {e \in [1..KeySlots(p) -> 0..KeySlots(p)] :
     \A i \in 1..KeySlots(p) : e[i] \in {Undefined, i}}

\* Faulty variant: the key is read from the unfiltered list.
getNextApiKey_Unfiltered(entries, index) ==
  LET API_KEYS == Filter(entries, {Undefined}) IN
  IF Len(API_KEYS) = 0
  THEN [threw |-> TRUE, key |-> Undefined, index |-> index]
  ELSE [threw |-> FALSE, key |-> At(entries, index + 1),
        index |-> (index + 1) % Len(API_KEYS)]

\* Faulty variant: an empty key list yields undefined instead of throwing.
getNextApiKey_NoThrow(entries, index) ==
  LET API_KEYS == Filter(entries, {Undefined}) IN
  IF Len(API_KEYS) = 0
  THEN [threw |-> FALSE, key |-> Undefined, index |-> index]
  ELSE [threw |-> FALSE, key |-> At(API_KEYS, index + 1),
        index |-> (index + 1) % Len(API_KEYS)]

\* Faulty variant: the index is incremented without the modulo.
getNextApiKey_NoWrap(entries, index) ==
  LET API_KEYS == Filter(entries, {Undefined}) IN
  IF Len(API_KEYS) = 0
  THEN [threw |-> TRUE, key |-> Undefined, index |-> index]
  ELSE [threw |-> FALSE, key |-> At(API_KEYS, index + 1),
        index |-> index + 1]

\* getNextApiKey(env): [..].filter(key => key), throw when empty, else
\* API_KEYS[apiKeyIndex] and apiKeyIndex = (apiKeyIndex + 1) % API_KEYS.length.
getNextApiKey(entries, index) ==
  LET API_KEYS == Filter(entries, {Undefined}) IN
  IF Len(API_KEYS) = 0
  THEN [threw |-> TRUE, key |-> Undefined, index |-> index]
  ELSE [threw |-> FALSE, key |-> At(API_KEYS, index + 1),
        index |-> (index + 1) % Len(API_KEYS)]

\* getNextComparisonKey(env): the same over the comparison variables.
getNextComparisonKey(entries, index) ==
  LET COMPARISON_KEYS == Filter(entries, {Undefined}) IN
  IF Len(COMPARISON_KEYS) = 0
  THEN [threw |-> TRUE, key |-> Undefined, index |-> index]
  ELSE [threw |-> FALSE, key |-> At(COMPARISON_KEYS, index + 1),
        index |-> (index + 1) % Len(COMPARISON_KEYS)]

\* A call of getNextApiKey(env) in a worker instance.
GetNextApiKey ==
  /\ Len(keyLog["image"]) < MaxKeyCalls
  /\ LET k == getNextApiKey(keyEnv["image"], apiKeyIndex) IN
     /\ apiKeyIndex' = k.index
     /\ keyLog' = [keyLog EXCEPT !["image"] =
                     Append(@, [threw |-> k.threw, key |-> k.key])]
  /\ UNCHANGED <<extVars, variant, lbVars, req, selLog, nSelects, nMarks, clean,
                 keyEnv, comparisonKeyIndex>>

\* A call of getNextComparisonKey(env) in a worker instance.
GetNextComparisonKey ==
  /\ Len(keyLog["comparison"]) < MaxKeyCalls
  /\ LET k == getNextComparisonKey(keyEnv["comparison"], comparisonKeyIndex) IN
     /\ comparisonKeyIndex' = k.index
     /\ keyLog' = [keyLog EXCEPT !["comparison"] =
                     Append(@, [threw |-> k.threw, key |-> k.key])]
  /\ UNCHANGED <<extVars, variant, lbVars, req, selLog, nSelects, nMarks, clean,
                 keyEnv, apiKeyIndex>>

\* --------------------------------------------------------- image generator
\* imageGenerator.js generateImage(prompt, env): a call not yet made, waiting
\* for fetch(API_URL), or settled.
IdleGen == [pc |-> "idle", key |-> Undefined, error |-> "none"]

\* What the provider call can do: a 2xx with an image URL, a non-2xx status,
\* a network error.
ProviderOutcomes == {"ok", "http", "throw"}

\* generateImage up to its first await: the prompt check, then
\* getNextApiKey(env), then fetch(API_URL) with the key.  A throw inside the
\* try is caught and rethrown as 'Image generation failed: ...'.
\* `called` says getNextApiKey ran, `fetched` that fetch was issued.
generateImage(promptOk, entries, index) ==
  IF ~promptOk
  THEN [called |-> FALSE, threw |-> FALSE, key |-> Undefined, index |-> index,
        fetched |-> FALSE, error |-> "prompt"]
  ELSE LET k == getNextApiKey(entries, index) IN
       IF k.threw
       THEN [called |-> TRUE, threw |-> TRUE, key |-> Undefined,
             index |-> k.index, fetched |-> FALSE, error |-> "nokeys"]
       ELSE [called |-> TRUE, threw |-> FALSE, key |-> k.key,
             index |-> k.index, fetched |-> TRUE, error |-> "none"]

\* A request of the worker calls generateImage(prompt, env) and runs to the
\* await of fetch, or to the rethrow.
GenerateImage(r, promptOk) ==
  /\ gen[r].pc # "fetching"
  /\ Len(keyLog["image"]) < MaxKeyCalls
  /\ LET g == generateImage(promptOk, keyEnv["image"], apiKeyIndex) IN
     /\ apiKeyIndex' = g.index
     /\ keyLog' = IF g.called
                  THEN [keyLog EXCEPT !["image"] =
                          Append(@, [threw |-> g.threw, key |-> g.key])]
                  ELSE keyLog
     /\ providerCalls' = IF g.fetched THEN providerCalls + 1 ELSE providerCalls
     /\ gen' = [gen EXCEPT ![r] =
                  [pc |-> IF g.fetched THEN "fetching" ELSE "done",
                   key |-> g.key, error |-> g.error]]
  /\ UNCHANGED <<variant, lbVars, req, selLog, nSelects, nMarks, clean,
                 keyEnv, comparisonKeyIndex, statLog, timerIns, nPoolOps, kmVars>>

\* The provider call of a request settles: the image URL is returned, or the
\* error is rethrown.
FetchResolves(r, o) ==
  /\ gen[r].pc = "fetching"
  /\ gen' = [gen EXCEPT ![r].pc = "done",
                        ![r].error = IF o = "ok" THEN "none" ELSE o]
  /\ UNCHANGED <<variant, lbVars, req, selLog, nSelects, nMarks, clean,
                 keyVars, statLog, timerIns, nPoolOps, providerCalls, kmVars>>

\* -------------------------------------------------------------- key manager
\* utils/keyManager.js.  A key is {id, apiKey, status, acquiredAt}; lastUsed
\* is written by releaseKey and read only by getStatus, and is left out.
\* null is Undefined: both are falsy.
KeyRecord(id, apiKey) ==
  [id |-> id, apiKey |-> apiKey, status |-> "available",
   acquiredAt |-> Undefined]

\* null / undefined where a key is expected.
NullKey ==
  [id |-> Undefined, apiKey |-> Undefined, status |-> "none",
   acquiredAt |-> Undefined]

\* keys.find(k => k.id === keyId).
FindKey(keys, keyId) ==
  IF \E i \in 1..Len(keys) : keys[i].id = keyId
  THEN keys[CHOOSE i \in 1..Len(keys) : keys[i].id = keyId]
  ELSE NullKey

\* Faulty variant: the key list is rebuilt on every call.
initializeKeys_Always(initialized, keys, entries) ==
  LET apiKeys == Filter(entries, {Undefined}) IN
  [initialized |-> TRUE,
   keys |-> [i \in 1..Len(apiKeys) |-> KeyRecord(i, apiKeys[i])]]

\* initializeKeys(env): nothing when initialized, else the non-empty
\* COMPARISON_API_KEY_n in order, numbered from 1, all available.
initializeKeys(initialized, keys, entries) ==
  IF initialized
  THEN [initialized |-> TRUE, keys |-> keys]
  ELSE LET apiKeys == Filter(entries, {Undefined}) IN
       [initialized |-> TRUE,
        keys |-> [i \in 1..Len(apiKeys) |-> KeyRecord(i, apiKeys[i])]]

\* Faulty variant: the first key is returned whatever its status.
getAvailableKey_Any(initialized, keys) ==
  IF ~initialized THEN NullKey
  ELSE IF Len(keys) > 0 THEN keys[1] ELSE NullKey

\* getAvailableKey(): null when not initialized, else the first key whose
\* status is 'available', or null.
getAvailableKey(initialized, keys) ==
  IF ~initialized THEN NullKey
  ELSE IF \E i \in 1..Len(keys) : keys[i].status = "available"
       THEN keys[CHOOSE i \in 1..Len(keys) :
                   /\ keys[i].status = "available"
                   /\ \A j \in 1..(i - 1) : keys[j].status # "available"]
       ELSE NullKey

\* Faulty variant: the key becomes active with no acquiredAt.
acquireKey_NoTime(keys, keyId, t) ==
  IF FindKey(keys, keyId) = NullKey
  THEN [ok |-> FALSE, keys |-> keys]
  ELSE [ok |-> TRUE,
        keys |-> [i \in 1..Len(keys) |->
                    IF keys[i].id = keyId
                    THEN [keys[i] EXCEPT !.status = "active"]
                    ELSE keys[i]]]

\* acquireKey(keyId): false when there is no such key, else the key becomes
\* active, acquired at t.
acquireKey(keys, keyId, t) ==
  IF FindKey(keys, keyId) = NullKey
  THEN [ok |-> FALSE, keys |-> keys]
  ELSE [ok |-> TRUE,
        keys |-> [i \in 1..Len(keys) |->
                    IF keys[i].id = keyId
                    THEN [keys[i] EXCEPT !.status = "active", !.acquiredAt = t]
                    ELSE keys[i]]]

\* Faulty variant: the released key keeps its acquiredAt.
releaseKey_KeepsTime(keys, keyId) ==
  IF FindKey(keys, keyId) = NullKey
  THEN [success |-> FALSE, error |-> "Key not found", keys |-> keys]
  ELSE [success |-> TRUE, error |-> "none",
        keys |-> [i \in 1..Len(keys) |->
                    IF keys[i].id = keyId
                    THEN [keys[i] EXCEPT !.status = "available"]
                    ELSE keys[i]]]

\* releaseKey(keyId): 'Key not found', or the key becomes available.
releaseKey(keys, keyId) ==
  IF FindKey(keys, keyId) = NullKey
  THEN [success |-> FALSE, error |-> "Key not found", keys |-> keys]
  ELSE [success |-> TRUE, error |-> "none",
        keys |-> [i \in 1..Len(keys) |->
                    IF keys[i].id = keyId
                    THEN [keys[i] EXCEPT !.status = "available",
                                         !.acquiredAt = Undefined]
                    ELSE keys[i]]]

\* getStatus() of the key manager: the counts of the keys whose status is
\* 'available' and 'active', the length of the list and a copy of each key
\* without its apiKey.  It assigns to no field: keys is the list it leaves.
KeyManager_getStatus(keys) ==
  [total |-> Len(keys),
   available |-> Cardinality({i \in 1..Len(keys) : keys[i].status = "available"}),
   active |-> Cardinality({i \in 1..Len(keys) : keys[i].status = "active"}),
   summary |-> [i \in 1..Len(keys) |->
                  [id |-> keys[i].id, status |-> keys[i].status,
                   acquiredAt |-> keys[i].acquiredAt]],
   keys |-> keys]

\* The test of autoReleaseExpiredKeys on one key at time t.
Expired(key, t) ==
  /\ key.status = "active"
  /\ key.acquiredAt # Undefined
  /\ t - key.acquiredAt > expiryTime

\* autoReleaseExpiredKeys(): releaseKey on every expired key.
autoReleaseExpiredKeys(keys, t) ==
  [i \in 1..Len(keys) |->
     IF Expired(keys[i], t)
     THEN [keys[i] EXCEPT !.status = "available", !.acquiredAt = Undefined]
     ELSE keys[i]]

\* An acquire-key request: not made, between two polls, or answered (the
\* waitTime of the answer is not kept).
\* Each client makes one request.  seen is the status the granted key had
\* when it was picked and grantedAt the time of the grant; missedExpired says
\* the last poll granted nothing while a key had been active for more than
\* expiryTime; released says the client has sent release-key for its key.
NoGrant ==
  [status |-> 0, success |-> FALSE, keyId |-> Undefined, seen |-> "none",
   grantedAt |-> 0, totalKeys |-> 0]
IdleAcquire ==
  [pc |-> "idle", startTime |-> 0, wakeAt |-> 0,
   missedExpired |-> FALSE, released |-> FALSE, out |-> NoGrant]

\* Faulty variant: the wait ends one poll late.
TimedOut_Late(startTime, t) == t - startTime >= maxWaitMs + pollIntervalMs

\* elapsed >= maxWaitMs in the loop of acquireKeyWithWait.
TimedOut(startTime, t) == t - startTime >= maxWaitMs

\* One iteration of the loop of acquireKeyWithWait at time t: the key found
\* is acquired and returned in the same synchronous step; with none found
\* the call fails once maxWaitMs has elapsed and sleeps pollIntervalMs
\* otherwise.  acquire-key answers a failure with 503.
PollOnce(c, rq, initialized, keys, t) ==
  LET key == getAvailableKey(initialized, keys) IN
  IF key # NullKey
  THEN /\ kmKeys' = acquireKey(keys, key.id, t).keys
       /\ kmReq' = [kmReq EXCEPT ![c] =
            [rq EXCEPT !.pc = "done", !.startTime = 0, !.wakeAt = 0,
                       !.missedExpired = FALSE,
                       !.out = [status |-> 200, success |-> TRUE,
                                keyId |-> key.id, seen |-> key.status,
                                grantedAt |-> t,
                                totalKeys |-> Len(keys)]]]
  ELSE /\ kmKeys' = keys
       /\ kmReq' = [kmReq EXCEPT ![c] =
            IF TimedOut(rq.startTime, t)
            THEN [rq EXCEPT !.pc = "done", !.startTime = 0, !.wakeAt = 0,
                            !.missedExpired =
                               \E i \in 1..Len(keys) : Expired(keys[i], t),
                            !.out = [NoGrant EXCEPT !.status = 503,
                                                    !.totalKeys = Len(keys)]]
            ELSE [rq EXCEPT !.pc = "sleeping", !.wakeAt = t + pollIntervalMs,
                            !.missedExpired =
                               \E i \in 1..Len(keys) : Expired(keys[i], t),
                            !.out = NoGrant]]

\* Acquire requests arrive at the instants StartTime + k * ArrivalStep.
ArrivalInstant(t) == (t - StartTime) % ArrivalStep = 0
NextArrival(t) ==
  StartTime + (((t - StartTime) \div ArrivalStep) + 1) * ArrivalStep

KmFrame ==
  UNCHANGED <<variant, lbVars, req, selLog, nSelects, nMarks, clean,
              keyVars, statLog, timerIns, nPoolOps, genVars>>

\* handleAcquireKey(request, env): initializeKeys(env),
\* autoReleaseExpiredKeys(), then acquireKeyWithWait(30000, 1000) up to its
\* first await.
HandleAcquireKey(c) ==
  /\ kmReq[c].pc = "idle"
  /\ ArrivalInstant(now)
  /\ LET init == initializeKeys(kmInitialized, kmKeys, keyEnv["comparison"])
         keys == autoReleaseExpiredKeys(init.keys, now)
         rq == [IdleAcquire EXCEPT !.startTime = now]
     IN /\ kmInitialized' = init.initialized
        /\ PollOnce(c, rq, init.initialized, keys, now)
  /\ UNCHANGED now
  /\ KmFrame

\* keyManager.acquireKeyWithWait() called on the exported object itself, up
\* to its first await.
AcquireKeyWithWait(c) ==
  /\ kmReq[c].pc = "idle"
  /\ ArrivalInstant(now)
  /\ LET rq == [IdleAcquire EXCEPT !.startTime = now]
     IN PollOnce(c, rq, kmInitialized, kmKeys, now)
  /\ UNCHANGED <<kmInitialized, now>>
  /\ KmFrame

\* The sleep of a waiting call is over and its loop runs once more.
Poll(c) ==
  /\ kmReq[c].pc = "sleeping"
  /\ now >= kmReq[c].wakeAt
  /\ PollOnce(c, kmReq[c], kmInitialized, kmKeys, now)
  /\ UNCHANGED <<kmInitialized, now>>
  /\ KmFrame

\* handleReleaseKey: initializeKeys(env), the await of request.json(), then
\* releaseKey(keyId).  Every handler starts with the same initializeKeys, so
\* the two steps are taken as one.
ReleaseCall(keyId) ==
  LET init == initializeKeys(kmInitialized, kmKeys, keyEnv["comparison"])
  IN /\ kmInitialized' = init.initialized
     /\ kmKeys' = releaseKey(init.keys, keyId).keys

HandleReleaseKey(keyId) ==
  /\ ReleaseCall(keyId)
  /\ UNCHANGED <<kmReq, now>>
  /\ KmFrame

\* The same handler, called by the client that was granted a key, with the
\* keyId of its grant; a client sends it once.
ClientReleases(c) ==
  /\ kmReq[c].pc = "done"
  /\ kmReq[c].out.success
  /\ ~kmReq[c].released
  /\ ReleaseCall(kmReq[c].out.keyId)
  /\ kmReq' = [kmReq EXCEPT ![c].released = TRUE]
  /\ UNCHANGED now
  /\ KmFrame

\* handleKeyStatus: initializeKeys(env), autoReleaseExpiredKeys(), then the
\* read-only getStatus().
KeyStatusCall(entries) ==
  LET init == initializeKeys(kmInitialized, kmKeys, entries)
  IN /\ kmInitialized' = init.initialized
     /\ kmKeys' = autoReleaseExpiredKeys(init.keys, now)

HandleKeyStatus ==
  /\ KeyStatusCall(keyEnv["comparison"])
  /\ UNCHANGED <<kmReq, now>>
  /\ KmFrame

\* The same handler called with an env whose COMPARISON_API_KEY_n differ from
\* those of the requests before; the requests after it carry this env.
HandleKeyStatusEnv(entries) ==
  /\ entries # keyEnv["comparison"]
  /\ KeyStatusCall(entries)
  /\ keyEnv' = [keyEnv EXCEPT !["comparison"] = entries]
  /\ UNCHANGED <<kmReq, now>>
  /\ UNCHANGED <<variant, lbVars, req, selLog, nSelects, nMarks, clean,
                 apiKeyIndex, comparisonKeyIndex, keyLog, statLog, timerIns, nPoolOps,
                 genVars>>

\* keyManager.getStatus() called on the exported object itself; the log keeps
\* the key list before (seen) and after (left) the last call and the value
\* returned.
KeyManagerGetStatus ==
  /\ LET s == KeyManager_getStatus(kmKeys) IN
     /\ kmKeys' = s.keys
     /\ statLog' = <<[seen |-> kmKeys,
                      status |-> [total |-> s.total, available |-> s.available,
                                  active |-> s.active, keys |-> s.summary],
                      left |-> s.keys]>>
  /\ UNCHANGED <<kmInitialized, kmReq, now>>
  /\ UNCHANGED <<variant, lbVars, req, selLog, nSelects, nMarks, clean,
                 keyVars, timerIns, nPoolOps, genVars>>

\* Time passes, up to the next wake-up of a sleeping call (none is overdue)
\* or the next arrival instant, whichever is first.
Tick ==
  LET sleepers == {c \in Slots : kmReq[c].pc = "sleeping"}
      arrival == NextArrival(now)
      instants == {kmReq[c].wakeAt : c \in sleepers} \cup
                  (IF arrival <= MaxClock THEN {arrival} ELSE {})
  IN /\ \A c \in sleepers : kmReq[c].wakeAt > now
     /\ instants # {}
     /\ now' = CHOOSE t \in instants : \A u \in instants : t <= u
     /\ UNCHANGED <<kmInitialized, kmKeys, kmReq>>
     /\ KmFrame

\* ---------------------------------------------------------------- status
\* Math.round(x * 100) of the ratio a / b, b > 0.
RoundPercent(a, b) == (200 * a + b) \div (2 * b)

\* getServerStats() of loadbalancer.js: for every server with a stats entry,
\* its counters, uptime ('DOWN' when in the failed set) and successRate,
\* (requests - failures) / requests * 100, or 'N/A' (rated FALSE) when the
\* server has no request.  The rate is kept in hundredths of a percent, as
\* toFixed(2) prints it; no exact half of a hundredth arises for fewer than
\* 64 requests, so rounding is to the nearest.
getServerStats(stats, failed) ==
  [w \in DOMAIN stats |->
     [requests |-> stats[w].requests,
      failures |-> stats[w].failures,
      uptime |-> IF w \in failed THEN "DOWN" ELSE "UP",
      rated |-> stats[w].requests > 0,
      successRate |->
        IF stats[w].requests > 0
        THEN (20000 * (stats[w].requests - stats[w].failures) + stats[w].requests)
               \div (2 * stats[w].requests)
        ELSE 0]]

\* Faulty variant: the failed workers are counted from the pending restore
\* timers.
getStatus_CountsTimers(servers, index, failed, tmrs) ==
  LET totalWorkers == Len(servers)
      activeWorkers == totalWorkers - Cardinality(failed)
  IN [totalWorkers |-> totalWorkers,
      activeWorkers |-> activeWorkers,
      failedWorkers |-> Len(tmrs),
      healthPercent |-> RoundPercent(activeWorkers, totalWorkers),
      currentIndex |-> index,
      failedList |-> failed]

\* getStatus() of main-worker.js: the counts, the cursor and the failed
\* bindings (Array.from(failedWorkers), kept here as the set).
getStatus(servers, index, failed, tmrs) ==
  LET totalWorkers == Len(servers)
      failedCount == Cardinality(failed)
      activeWorkers == totalWorkers - failedCount
  IN [totalWorkers |-> totalWorkers,
      activeWorkers |-> activeWorkers,
      failedWorkers |-> failedCount,
      healthPercent |-> RoundPercent(activeWorkers, totalWorkers),
      currentIndex |-> index,
      failedList |-> failed]

\* loadBalancer.getStatus() called on the balancer of main-worker.js.  The
\* method assigns to no field; the log keeps, for the last two calls, the
\* pool, cursor and failed set before (seen) and after (left) the call and
\* the value returned.
GetStatus ==
  /\ variant = "main"
  /\ UNCHANGED <<variant, lbVars, req, selLog, nSelects, nMarks, clean,
                 keyVars, timerIns, nPoolOps, genVars, kmVars>>
  /\ LET last == IF statLog = <<>> THEN <<>> ELSE <<statLog[Len(statLog)]>>
     IN statLog' = Append(last,
          [seen |-> <<pool, currentIndex, failedWorkers>>,
           status |-> getStatus(pool, currentIndex, failedWorkers, timers),
           left |-> <<pool', currentIndex', failedWorkers'>>])

\* ---------------------------------------------------------- specification
InitBalancer ==
  /\ variant \in Variants
  /\ pool = [k \in 1..NumWorkers |-> k]
  /\ currentIndex = 0
  /\ failedWorkers = {}
  /\ timers = <<>>
  /\ serverStats = IF variant = "lb"
                   THEN [w \in Workers |-> [requests |-> 0, failures |-> 0]]
                   ELSE <<>>
  /\ req = [r \in Slots |-> IdleReq]
  /\ selLog = <<>>
  /\ nSelects = 0
  /\ nMarks = 0
  /\ clean = TRUE
  /\ apiKeyIndex = 0
  /\ comparisonKeyIndex = 0
  /\ keyLog = [p \in Providers |-> <<>>]
  /\ statLog = <<>>
  /\ timerIns = <<>>
  /\ nPoolOps = 0
  /\ gen = [r \in Slots |-> IdleGen]
  /\ providerCalls = 0
  /\ kmInitialized = FALSE
  /\ kmKeys = <<>>
  /\ kmReq = [c \in Slots |-> IdleAcquire]
  /\ now = StartTime

\* A deployment with every key configured.
Init ==
  /\ InitBalancer
  /\ keyEnv = [p \in Providers |-> [i \in 1..KeySlots(p) |-> i]]

\* A deployment with any of the key variables set.
InitKeys ==
  /\ InitBalancer
  /\ \E a \in KeyEnvs("image"), c \in KeyEnvs("comparison") :
       keyEnv = [p \in Providers |-> IF p = "image" THEN a ELSE c]

\* The requests of handleRequest (main-worker.js) and of generateImage /
\* compareImages (loadbalancer.js), and the restore timers they start.
Next ==
  \/ \E r \in Slots, op \in OpsOf("main") :
       \E b \in (IF op.method = "POST" THEN Payloads ELSE {NoBody}) :
         HandleRequest(r, op, b)
  \/ \E r \in Slots : ReadBody(r)
  \/ \E r \in Slots, o \in CallOutcomes("main") : ForwardReturns(r, o)
  \/ \E r \in Slots, op \in OpsOf("lb") : StartLB(r, op)
  \/ \E r \in Slots, o \in CallOutcomes("lb") : FetchReturns(r, o)
  \/ \E r \in Slots, o \in JsonOutcomes : JsonReturns(r, o)
  \/ \E r \in Slots : Returns(r)
  \/ TimerFires

Spec == Init /\ [][Next]_vars

\* The requests while no restore timer comes due (the windows are 2 and 5
\* minutes), with every awaited promise settling: the body read, each backend
\* call (it returns, throws or times out), response.json(), and the caller's
\* continuation.
NextRequests ==
  \/ \E r \in Slots, op \in OpsOf("main") :
       \E b \in (IF op.method = "POST" THEN Payloads ELSE {NoBody}) :
         HandleRequest(r, op, b)
  \/ \E r \in Slots : ReadBody(r)
  \/ \E r \in Slots, o \in CallOutcomes("main") : ForwardReturns(r, o)
  \/ \E r \in Slots, op \in OpsOf("lb") : StartLB(r, op)
  \/ \E r \in Slots, o \in CallOutcomes("lb") : FetchReturns(r, o)
  \/ \E r \in Slots, o \in JsonOutcomes : JsonReturns(r, o)
  \/ \E r \in Slots : Returns(r)

FairSpec ==
  /\ Init
  /\ [][NextRequests]_vars
  /\ \A r \in Slots :
       /\ WF_vars(ReadBody(r))
       /\ WF_vars(\E o \in CallOutcomes("main") : ForwardReturns(r, o))
       /\ WF_vars(\E o \in CallOutcomes("lb") : FetchReturns(r, o))
       /\ WF_vars(\E o \in JsonOutcomes : JsonReturns(r, o))
       /\ WF_vars(Returns(r))

\* The balancer of loadbalancer.js with one generateImage / compareImages
\* call, its restore timers and servers added and removed meanwhile.
NextPool ==
  \/ \E op \in OpsOf("lb") : StartLB(1, op)
  \/ \E o \in CallOutcomes("lb") : FetchReturns(1, o)
  \/ \E o \in JsonOutcomes : JsonReturns(1, o)
  \/ Returns(1)
  \/ TimerFires
  \/ \E w \in ServerIds : AddServer(w)
  \/ \E w \in ServerIds : RemoveServer(w)

InitPool == Init /\ variant = "lb"

SpecPool == InitPool /\ [][NextPool]_vars

\* One balancer object and the calls of its methods in any order.
NextLB ==
  \/ Select
  \/ \E w \in Workers : MarkFailed(w)
  \/ TimerFires

SpecLB == Init /\ [][NextLB]_vars

\* The same calls, with the marking history kept for every pending timer.
NextMarks ==
  \/ Select
  \/ \E w \in Workers : MarkFailedTracked(w)
  \/ TimerFiresTracked

SpecMarks == Init /\ [][NextMarks]_vars

\* One worker instance and the calls of its key-rotation functions.
NextKeys ==
  \/ GetNextApiKey
  \/ GetNextComparisonKey

SpecKeys == InitKeys /\ [][NextKeys]_vars

\* A deployment with any of the image key variables set.
InitWorker ==
  /\ InitBalancer
  /\ \E a \in KeyEnvs("image") :
       keyEnv = [p \in Providers |->
                   IF p = "image" THEN a ELSE [i \in 1..KeySlots(p) |-> i]]

\* One worker instance and its concurrent generateImage calls.
NextWorker ==
  \/ \E r \in Slots, promptOk \in BOOLEAN : GenerateImage(r, promptOk)
  \/ \E r \in Slots, o \in ProviderOutcomes : FetchResolves(r, o)

SpecWorker == InitWorker /\ [][NextWorker]_vars

\* The same calls with no selection history, and the runtime running every
\* timer callback whose delay has elapsed.
NextFairLB ==
  \/ SelectUnlogged
  \/ \E w \in Workers : MarkFailed(w)
  \/ TimerFires

FairSpecLB == Init /\ [][NextFairLB]_vars /\ WF_vars(TimerFires)

\* The key variables the key manager is started with: none set, the second
\* set, or the second and the third.
ManagedEnvs ==
  {[i \in 1..KeySlots("comparison") |-> IF i \in set THEN i ELSE Undefined] :
     set \in {{}, {2}, {2, 3}}}

\* The keyId of a release request: a key's id, or one no key has.
KeyIds == {1, 2, 3}

InitKM ==
  /\ InitBalancer
  /\ variant = "main"
  /\ \E c \in ManagedEnvs :
       keyEnv = [p \in Providers |->
                   IF p = "comparison" THEN c
                   ELSE [i \in 1..KeySlots(p) |-> i]]

\* The key manager of one process: its acquire, release and status requests
\* and the passing of time.
NextKM ==
  \/ \E c \in Slots : HandleAcquireKey(c)
  \/ \E c \in Slots : AcquireKeyWithWait(c)
  \/ \E c \in Slots : Poll(c)
  \/ \E k \in KeyIds : HandleReleaseKey(k)
  \/ HandleKeyStatus
  \/ Tick

SpecKM == InitKM /\ [][NextKM]_vars


\* The key manager reached through the request handlers only.
NextKMHandlers ==
  \/ \E c \in Slots : HandleAcquireKey(c)
  \/ \E c \in Slots : Poll(c)
  \/ \E k \in KeyIds : HandleReleaseKey(k)
  \/ HandleKeyStatus
  \/ Tick

SpecKMHandlers == InitKM /\ [][NextKMHandlers]_vars

\* The same with requests that carry another env.
NextKMEnv ==
  \/ NextKMHandlers
  \/ \E e \in ManagedEnvs : HandleKeyStatusEnv(e)

SpecKMEnv == InitKM /\ [][NextKMEnv]_vars

\* The same with the status of the manager read between the requests.
NextKMStatus ==
  \/ NextKMHandlers
  \/ KeyManagerGetStatus

SpecKMStatus == InitKM /\ [][NextKMStatus]_vars

\* The request handlers with every release sent by a client for the key it
\* was granted.
NextLease ==
  \/ \E c \in Slots : HandleAcquireKey(c)
  \/ \E c \in Slots : Poll(c)
  \/ \E c \in Slots : ClientReleases(c)
  \/ HandleKeyStatus
  \/ Tick

SpecLease == InitKM /\ [][NextLease]_vars

\* The same with the clock running and every sleep ending.
FairSpecKM ==
  /\ InitKM
  /\ [][NextKM]_vars
  /\ WF_vars(Tick)
  /\ \A c \in Slots : WF_vars(Poll(c))

\* The balancer of main-worker.js with its status read between the calls.
NextStatus ==
  \/ SelectUnlogged
  \/ \E w \in Workers : MarkFailed(w)
  \/ TimerFires
  \/ GetStatus

InitStatus == Init /\ variant = "main"

SpecStatus == InitStatus /\ [][NextStatus]_vars


\* ------------------------------------------------------------------ claims
\* The member after x in seq, wrapping at the end.
NextIn(seq, x) ==
  LET k == CHOOSE k \in 1..Len(seq) : seq[k] = x IN seq[(k % Len(seq)) + 1]

\* C1: with the failed set empty at every selection so far, the k-th
\* selection from a fresh cursor returns pool member ((k-1) mod N) + 1: N
\* selections return every member once in pool order and selection N+1
\* returns the first member again.
C1_RoundRobinAllHealthy ==
  \A k \in 1..Len(selLog) :
    (\A j \in 1..k : selLog[j].f = {} /\ selLog[1].i = 0)
      => selLog[k].r = pool[((k - 1) % Len(pool)) + 1]

C1_Witness ==
  /\ Len(selLog) = Len(pool) + 1
  /\ \A j \in 1..Len(selLog) : selLog[j].f = {}

\* C2: every selection returns a member of the pool, and a member outside
\* the failed set whenever some member is outside it.
C2_SelectionReturnsHealthyMember ==
  \A k \in 1..Len(selLog) :
    /\ selLog[k].r \in Range(pool)
    /\ (Range(pool) \ selLog[k].f # {}) => selLog[k].r \notin selLog[k].f

C2_Witness ==
  /\ \E k \in 1..Len(selLog) :
       selLog[k].f # {} /\ Range(pool) \ selLog[k].f # {}
  /\ \E k \in 1..Len(selLog) : selLog[k].f = Range(pool)
  /\ timers # <<>>

\* C3: consecutive selections that see the same failed set F, with K = |F| < N,
\* walk the available members in pool order, wrapping at the end, and any N-K
\* of them in a row return every available member exactly once.
C3_RoundRobinOverAvailable ==
  /\ \A k \in 1..(Len(selLog) - 1) :
       LET avail == Filter(pool, selLog[k].f) IN
       (selLog[k + 1].f = selLog[k].f /\ avail # <<>>)
         => /\ selLog[k].r \in Range(avail)
            /\ selLog[k + 1].r = NextIn(avail, selLog[k].r)
  /\ \A k \in 1..Len(selLog) :
       LET F == selLog[k].f
           m == Len(pool) - Cardinality(F)
       IN (m > 0 /\ k + m - 1 <= Len(selLog) /\ \A j \in k..(k + m - 1) : selLog[j].f = F)
            => /\ {selLog[j].r : j \in k..(k + m - 1)} = Range(pool) \ F
               /\ \A j1, j2 \in k..(k + m - 1) :
                    selLog[j1].r = selLog[j2].r => j1 = j2

C3_Witness ==
  \E k \in 1..(Len(selLog) - 2) :
    /\ Cardinality(selLog[k].f) = 1
    /\ selLog[k + 1].f = selLog[k].f
    /\ selLog[k + 2].f = selLog[k].f
    /\ selLog[k].i > 0

\* C4: a selection made while every pool member is failed returns the first
\* pool member and leaves the failed set empty.
C4_ResetWhenAllFailed ==
  \A k \in 1..Len(selLog) :
    selLog[k].f = Range(pool) => selLog[k].r = pool[1] /\ selLog[k].g = {}

C4_Witness == \E k \in 1..Len(selLog) : selLog[k].f = Range(pool)

\* C5: every failed worker has a restore timer pending whose delay is the
\* window of its file, and every worker that is failed is later not failed,
\* whether or not anything selects or resets.
C5_RestoredAfterWindow ==
  /\ [](\A w \in failedWorkers :
          \E k \in 1..Len(timers) :
            timers[k].w = w /\ timers[k].delay = FailWindow(variant))
  /\ \A w \in Workers : (w \in failedWorkers) ~> (w \notin failedWorkers)

C5_Witness ==
  /\ nMarks = MaxMarks
  /\ nSelects = 0
  /\ failedWorkers = {}
  /\ timers = <<>>

\* C6: in forwardRequest every failed attempt, whatever its number, marked
\* its worker as failed.
C6_EveryFailureMarks ==
  \A r \in Slots :
    variant = "main" =>
      \A k \in 1..Len(req[r].markedOn) : req[r].markedOn[k]

\* C7: a request makes at most 3 backend calls (min(pool size, 3) in
\* loadbalancer.js), one selection per call, and as many calls as attempts
\* begun.
C7_AttemptsBounded ==
  \A r \in Slots :
    /\ req[r].nCall <= (IF variant = "main" THEN maxRetries
                        ELSE Min(Len(pool), MaxServersTried))
    /\ req[r].nSel = req[r].nCall
    /\ req[r].pc \in {"calling", "parsing"} => req[r].nCall = Len(req[r].failedOn) + 1
    /\ req[r].pc = "done" => req[r].nCall \in {Len(req[r].failedOn), Len(req[r].failedOn) + 1}

C7_Witness ==
  \E r \in Slots :
    /\ req[r].pc = "done"
    /\ req[r].nCall = maxRetries
    /\ Len(req[r].failedOn) = maxRetries

\* C8: once an attempt has got a success status the request makes no further
\* call, that attempt is not treated as a failure (its worker is not marked),
\* and the request ends with that backend's response and no error.
C8_SuccessEndsRequest ==
  \A r \in Slots :
    req[r].okAt # 0 =>
      /\ req[r].nCall = req[r].okAt
      /\ Len(req[r].failedOn) = req[r].okAt - 1
      /\ req[r].pc = "done" =>
           /\ req[r].out.kind = "backend"
           /\ req[r].out.worker = req[r].worker
           /\ req[r].out.details = NoError

\* A prompt the fallback is documented to accept: a string, non-empty after
\* trimming, of at most 1000 characters.
ValidPrompt(b) == b.type = "string" /\ b.trimLen > 0 /\ b.len <= MaxPromptLen

\* C9: a POST /api/generate-image with a valid prompt whose three attempts
\* all failed ends with a 200 response with success and fallback set.
C9_ValidPromptGetsFallback ==
  \A r \in Slots :
    ( /\ variant = "main"
      /\ req[r].pc = "done"
      /\ req[r].op = GenerateOp
      /\ ValidPrompt(req[r].bodyIn)
      /\ Len(req[r].failedOn) = maxRetries )
    => /\ req[r].out.status = 200
       /\ req[r].out.success
       /\ req[r].out.fallback

\* C10: an operation other than POST /api/generate-image (main-worker.js), or
\* compareImages (loadbalancer.js), whose attempts all failed ends with the
\* explicit failure: the 503, or the thrown 'All N server attempts failed';
\* never success or fallback.
C10_NoFallbackForOtherOps ==
  \A r \in Slots :
    ( /\ req[r].pc = "done"
      /\ Len(req[r].failedOn) = req[r].maxAttempts
      /\ \/ variant = "main" /\ req[r].op # GenerateOp
         \/ variant = "lb" /\ req[r].op = CompareOp )
    => /\ ~req[r].out.success
       /\ ~req[r].out.fallback
       /\ variant = "main" => req[r].out.kind = "unavailable" /\ req[r].out.status = 503
       /\ variant = "lb" => req[r].out.kind = "thrown"
                            /\ req[r].out.attempt = req[r].maxAttempts

C10_Witness ==
  \E r \in Slots :
    /\ variant = "main"
    /\ req[r].pc = "done"
    /\ req[r].op = CompareOp
    /\ ValidPrompt(req[r].body)
    /\ req[r].body.wellFormed
    /\ req[r].out.status = 503

RECURSIVE decodeURIComponent(_)
\* The inverse of the escapes: "%20" is " ", "%2F" is "/", every other unit
\* stands for itself (computed by halves, cut where an escape is not split).
decodeURIComponent(u) ==
  IF Len(u) = 0 THEN <<>>
  ELSE IF Len(u) = 1 THEN u
  ELSE IF Len(u) = 3 /\ u[1] = "%"
       THEN <<IF SubSeq(u, 2, 3) = <<"2", "0">> THEN " " ELSE "/">>
  ELSE LET h == Len(u) \div 2
           InEscape(c) == (c > 1 /\ u[c - 1] = "%") \/ (c > 2 /\ u[c - 2] = "%")
           c == CHOOSE c \in 2..Len(u) : c \in (h - 1)..(h + 3) /\ ~InEscape(c)
       IN decodeURIComponent(SubSeq(u, 1, c - 1))
          \o decodeURIComponent(SubSeq(u, c, Len(u)))

\* C11: a fallback response is returned after the request's three failed
\* calls and no other, echoes the prompt as received, and its imageUrl is the
\* Pollinations prefix followed by the URL-encoding of the trimmed prompt (no
\* raw white space or reserved character, and decoding it gives the trimmed
\* prompt back): it depends on the prompt alone, not on the pool, cursor or
\* failed set.
C11_FallbackFromPromptAlone ==
  \A r \in Slots :
    (req[r].pc = "done" /\ req[r].out.kind = "fallback") =>
      LET url == req[r].out.imageUrl
          rest == Tail(url)
      IN /\ req[r].nCall = maxRetries
         /\ Len(req[r].failedOn) = maxRetries
         /\ req[r].out.prompt = req[r].bodyIn
         /\ url = PollinationsPrefix \o encodeURIComponent(Trim(req[r].bodyIn.text))
         /\ \A i \in 1..Len(rest) : rest[i] \notin {" ", "/", LoneSurrogate}
         /\ decodeURIComponent(rest) = Trim(req[r].bodyIn.text)

C11_Witness ==
  \E r \in Slots :
    /\ req[r].pc = "done"
    /\ req[r].out.kind = "fallback"
    /\ req[r].bodyIn.trimLen < req[r].bodyIn.len
    /\ failedWorkers # {}

\* C12: a request that arrives while markings of earlier requests are still
\* in force (their windows have not elapsed, and some worker is not marked)
\* has its selection made among the unmarked workers only.
C12_MarkingsSeenByLaterRequests ==
  \A r \in Slots :
    ( /\ req[r].pc = "calling"
      /\ req[r].nCall = 1
      /\ req[r].seenFailed # Range(pool) )
    => req[r].worker \notin req[r].seenFailed

\* C13: an attempt that the worker answered with its validation response is
\* the last of its request (no call to another backend follows) and does not
\* mark its worker as failed.
C13_ValidationNotRetried ==
  \A r \in Slots :
    (variant = "main" /\ req[r].lastError.kind = "rejected") =>
      /\ req[r].nCall = Len(req[r].failedOn)
      /\ ~req[r].markedOn[Len(req[r].markedOn)]

\* C14: a POST /api/generate-image whose prompt the worker rejected ends with
\* the 400 validation response, never with the 503; and a request that ends
\* because its backends all failed otherwise never ends with a 400.
C14_BadInputToldFromUnavailable ==
  \A r \in Slots :
    (variant = "main" /\ req[r].pc = "done") =>
      /\ (req[r].op = GenerateOp /\ req[r].lastError.kind = "rejected")
           => req[r].out.status = 400 /\ req[r].out.kind # "unavailable"
      /\ (req[r].lastError.kind \in {"http", "throw"}) => req[r].out.status # 400

\* C15: the pool being at least as large as the attempt bound, the backend of
\* each call of a request differs from the backend of every earlier failed
\* attempt of that request, whatever other requests do in between.
C15_RetryOnDifferentBackend ==
  \A r \in Slots :
    Len(pool) >= req[r].maxAttempts =>
      /\ \A i, j \in 1..Len(req[r].failedOn) :
           req[r].failedOn[i] = req[r].failedOn[j] => i = j
      /\ req[r].pc \in {"calling", "parsing"}
           => req[r].worker \notin Range(req[r].failedOn)

\* C16: every backend call in flight was issued with a timeout, and an
\* attempt that ended by timing out marked its worker as failed.
C16_CallsBoundedByTimeout ==
  \A r \in Slots :
    /\ req[r].pc = "calling" => req[r].timed
    /\ (req[r].pc = "done" /\ req[r].out.details.kind = "timeout")
         => req[r].markedOn[Len(req[r].markedOn)]

\* C17: the failure reported when all attempts failed and no fallback
\* applied carries the error of the final attempt: its worker is the worker
\* of the last failed attempt and its attempt number is the last of the loop.
C17_LastErrorReported ==
  \A r \in Slots :
    (req[r].pc = "done" /\ req[r].out.kind \in {"unavailable", "thrown"}) =>
      /\ Len(req[r].failedOn) = req[r].maxAttempts
      /\ req[r].out.details.kind \in CallOutcomes(variant) \cup JsonOutcomes
      /\ req[r].out.details.kind \notin {"ok", "json"}
      /\ req[r].out.details.worker = req[r].failedOn[Len(req[r].failedOn)]
      /\ req[r].out.details.attempt =
           FirstAttempt(variant) + req[r].maxAttempts - 1

C17_Witness ==
  \E r \in Slots :
    /\ variant = "main"
    /\ req[r].pc = "done"
    /\ req[r].out.kind = "unavailable"
    /\ req[r].out.details.kind = "throw"
    /\ req[r].out.details.worker # req[r].failedOn[1]

\* C18: in loadbalancer.js every failed attempt marked its worker as failed.
C18_FailedWorkerMarkedDown ==
  \A r \in Slots :
    variant = "lb" =>
      \A k \in 1..Len(req[r].markedOn) : req[r].markedOn[k]

\* C19: while no attempt has failed and no worker is marked, the first call
\* of the i-th request goes to pool member ((i-1) mod N) + 1 (slot i holds the
\* i-th request).
C19_RequestsSpreadRoundRobin ==
  \A r \in Slots :
    ( /\ clean
      /\ failedWorkers = {}
      /\ req[r].pc = "calling"
      /\ req[r].nCall = 1 )
    => req[r].worker = pool[((r - 1) % Len(pool)) + 1]

\* C20: with k > 0 keys configured for a provider, the j-th call of its
\* rotation function returns the ((j-1) mod k)+1-th configured key in
\* configuration order, never an empty entry, so any k calls in a row use each
\* key once.
C20_KeysRoundRobin ==
  \A p \in Providers :
    LET keys == Filter(keyEnv[p], {Undefined})
        k == Len(keys)
        log == keyLog[p]
    IN k > 0 =>
         /\ \A j \in 1..Len(log) :
              /\ ~log[j].threw
              /\ log[j].key # Undefined
              /\ log[j].key = keys[((j - 1) % k) + 1]
         /\ \A j \in 1..(Len(log) - k + 1) :
              {log[i].key : i \in j..(j + k - 1)} = Range(keys)

C20_Witness ==
  \E p \in Providers :
    LET keys == Filter(keyEnv[p], {Undefined}) IN
    /\ Len(keys) >= 2
    /\ Len(keys) < Len(keyEnv[p])
    /\ keyEnv[p][1] = Undefined
    /\ Len(keyLog[p]) > Len(keys)

\* C30: every direct selection leaves the cursor exactly one above the value
\* it saw, the selection that resets a fully-failed pool included, and so no
\* selection decreases it.
C30_EverySelectionAdvancesCursor ==
  \A k \in 1..Len(selLog) : selLog[k].j = selLog[k].i + 1

\* C21: with no image key configured, every getNextApiKey call throws and
\* leaves apiKeyIndex where it was, and no generateImage call reaches
\* fetch(API_URL): each ends with the rethrown error.
C21_NoKeysNoProviderCall ==
  Len(Filter(keyEnv["image"], {Undefined})) = 0 =>
    /\ apiKeyIndex = 0
    /\ providerCalls = 0
    /\ \A j \in 1..Len(keyLog["image"]) : keyLog["image"][j].threw
    /\ \A r \in Slots :
         /\ gen[r].pc # "fetching"
         /\ gen[r].pc = "done" =>
              /\ gen[r].error \in {"prompt", "nokeys"}
              /\ gen[r].key = Undefined

C21_Witness ==
  /\ Len(Filter(keyEnv["image"], {Undefined})) = 0
  /\ Len(keyLog["image"]) >= 2
  /\ \E r \in Slots : gen[r].pc = "done" /\ gen[r].error = "nokeys"

\* C22: with k > 0 image keys configured and the generateImage calls of
\* concurrent requests interleaved in any order, apiKeyIndex is always in
\* 0..k-1, no getNextApiKey call returns undefined, and with k >= 2 no two
\* successive calls return the same key.
C22_KeyIndexAlwaysValid ==
  LET k == Len(Filter(keyEnv["image"], {Undefined}))
      log == keyLog["image"]
  IN k > 0 =>
       /\ apiKeyIndex \in 0..(k - 1)
       /\ \A j \in 1..Len(log) : ~log[j].threw /\ log[j].key # Undefined
       /\ k >= 2 => \A j \in 1..(Len(log) - 1) : log[j].key # log[j + 1].key
       /\ \A r \in Slots : gen[r].pc = "fetching" => gen[r].key # Undefined

C22_Witness ==
  LET k == Len(Filter(keyEnv["image"], {Undefined})) IN
  /\ k = 2
  /\ Len(keyLog["image"]) > k
  /\ \A r \in Slots : gen[r].pc = "fetching"
  /\ gen[1].key # gen[2].key

\* C23: every getStatus() call leaves the pool, the cursor and the failed set
\* as it found them; its counts satisfy activeWorkers + failedWorkers =
\* totalWorkers with 0 <= failedWorkers <= totalWorkers; and a call that finds
\* the balancer as the previous call left it returns the same value.
C23_StatusReadOnly ==
  \A k \in 1..Len(statLog) :
    LET e == statLog[k]
        s == e.status
    IN /\ e.left = e.seen
       /\ s.activeWorkers + s.failedWorkers = s.totalWorkers
       /\ 0 <= s.failedWorkers /\ s.failedWorkers <= s.totalWorkers
       /\ (k < Len(statLog) /\ statLog[k + 1].seen = e.left)
            => statLog[k + 1].status = s

C23_Witness ==
  /\ Len(statLog) = 2
  /\ statLog[1].seen = statLog[2].seen
  /\ statLog[1].status.failedWorkers >= 1
  /\ statLog[1].status.currentIndex >= 1

\* C24: a key manager grant always goes to a key whose status was
\* 'available' when it was picked, and the step that grants it leaves it
\* 'active', acquired at that instant, whatever the order in which concurrent
\* acquire requests and their polls run; and with every key active
\* getAvailableKey() returns null.
C24_GrantOnlyAvailable ==
  /\ [](\A c \in Slots :
         kmReq[c].out.success =>
           /\ kmReq[c].out.seen = "available"
           /\ FindKey(kmKeys, kmReq[c].out.keyId) # NullKey)
  /\ []((\A i \in 1..Len(kmKeys) : kmKeys[i].status = "active")
          => getAvailableKey(kmInitialized, kmKeys) = NullKey)
  /\ [][\A c \in Slots :
          (~kmReq[c].out.success /\ kmReq'[c].out.success) =>
            LET key == FindKey(kmKeys', kmReq'[c].out.keyId) IN
            /\ key.status = "active"
            /\ key.acquiredAt = now
            /\ \A d \in Slots \ {c} : kmReq'[d] = kmReq[d]]_vars

C24_Witness ==
  /\ kmInitialized
  /\ Len(kmKeys) >= 1
  /\ \A i \in 1..Len(kmKeys) : kmKeys[i].status = "active"
  /\ \E c, d \in Slots :
       /\ kmReq[c].out.success
       /\ kmReq[d].pc = "sleeping"
       /\ kmReq[d].wakeAt > kmReq[d].startTime + pollIntervalMs

\* C25: a poll of a waiting acquireKeyWithWait call succeeds exactly when it
\* finds an available key; the call fails (503) only at a poll made maxWaitMs
\* or more after it started; it goes to sleep only before that; and, the
\* clock running and every sleep ending, each waiting call eventually
\* returns, with an empty or uninitialized pool as well.
C25_AcquireTerminates ==
  /\ [](\A c \in Slots :
         kmReq[c].pc = "sleeping" =>
           kmReq[c].wakeAt - pollIntervalMs - kmReq[c].startTime < maxWaitMs)
  /\ [][\A c \in Slots :
          (kmReq[c].pc = "sleeping" /\ kmReq'[c] # kmReq[c]) =>
            /\ kmReq'[c].out.success
                 <=> getAvailableKey(kmInitialized, kmKeys) # NullKey
            /\ (kmReq'[c].pc = "done" /\ ~kmReq'[c].out.success) =>
                 /\ now - kmReq[c].startTime >= maxWaitMs
                 /\ kmReq'[c].out.status = 503]_vars
  /\ \A c \in Slots : (kmReq[c].pc = "sleeping") ~> (kmReq[c].pc = "done")

C25_Witness ==
  \E c, d \in Slots :
    /\ ~kmInitialized
    /\ kmReq[c].pc = "done" /\ kmReq[c].out.status = 503
    /\ kmReq[d].pc = "sleeping"

\* C26: a key active for more than expiryTime is available again to the calls
\* already waiting: no poll of acquireKeyWithWait ends without a grant while
\* some key has been active for more than expiryTime.
C26_ExpiredKeyGoesToPoller ==
  \A c \in Slots : ~kmReq[c].missedExpired

\* C27: in main-worker.js the body of a POST is read into the snapshot once,
\* before the first backend call; every backend call is passed a copy that
\* carries the inbound body while the inbound request itself stays unread;
\* and a fallback response echoes the inbound prompt, after any number of
\* attempts.
C27_BodyCapturedOnceClonesSent ==
  \A r \in Slots :
    (variant = "main" /\ req[r].pc \in {"reading", "calling", "done"}) =>
      /\ ~req[r].bodyUsed
      /\ req[r].nCapture <= 1
      /\ req[r].nCall >= 1 =>
           /\ req[r].nCapture = (IF req[r].op.method = "POST" THEN 1 ELSE 0)
           /\ req[r].op.method = "POST" => req[r].body = req[r].bodyIn
      /\ req[r].pc = "reading" => req[r].nCall = 0 /\ req[r].nCapture = 0
      /\ Len(req[r].sent) = req[r].nCall
      /\ \A k \in 1..Len(req[r].sent) : req[r].sent[k]
      /\ req[r].out.fallback =>
           /\ req[r].out.prompt = req[r].bodyIn
           /\ req[r].nCall = maxRetries

C27_Witness ==
  \E r \in Slots :
    /\ variant = "main"
    /\ req[r].pc = "done"
    /\ req[r].out.fallback
    /\ Len(req[r].sent) = maxRetries
    /\ req[r].bodyIn.trimLen < req[r].bodyIn.len

\* C28: when the attempts of a POST /api/generate-image are exhausted, the
\* fallback response is given exactly for the bodies the worker's validation
\* accepts (prompt a string, non-empty after trimming, at most 1000 long), and
\* the other bodies get the 503.
C28_FallbackIffWorkerAccepts ==
  \A r \in Slots :
    ( /\ variant = "main"
      /\ req[r].pc = "done"
      /\ FallbackEligible(req[r].op)
      /\ req[r].okAt = 0 )
    => /\ req[r].out.fallback <=> ~WorkerRejects(req[r].bodyIn)
       /\ ~req[r].out.fallback => req[r].out.status = 503

\* C29: every request that has started reaches its end, each awaited promise
\* settling; it ends in one outcome (a backend's response, the fallback
\* response, or the failure); and its attempt counter is the first value plus
\* the calls this request has made before the current one, whatever earlier
\* requests did, below the bound on attempts.
C29_RequestEndsInOneOutcome ==
  /\ [](\A r \in Slots :
         req[r].pc = "done" =>
           /\ req[r].out.kind \in {"backend", "fallback", "unavailable", "thrown"}
           /\ req[r].out.kind = "backend" <=>
                (req[r].out.success /\ ~req[r].out.fallback)
           /\ req[r].out.kind = "fallback" <=>
                (req[r].out.success /\ req[r].out.fallback)
           /\ req[r].out.kind \in {"unavailable", "thrown"} <=>
                ~req[r].out.success)
  /\ [](\A r \in Slots :
         req[r].pc \in {"calling", "parsing"} =>
           /\ req[r].attempt = FirstAttempt(variant) + req[r].nCall - 1
           /\ req[r].attempt < FirstAttempt(variant) + req[r].maxAttempts)
  /\ \A r \in Slots :
       (req[r].pc \in {"reading", "calling", "parsing"}) ~> (req[r].pc = "done")

C29_Witness ==
  /\ req[1].pc = "returned"
  /\ req[2].pc = "calling"
  /\ req[2].nCall = 2
  /\ req[2].attempt = FirstAttempt(variant) + 1

\* ---------------------------------------------------------------------- C31
\* A selection call took the reset branch: it saw a non-empty failed set and
\* left it empty.
ResetSeen == \E k \in 1..Len(selLog) : selLog[k].f # {} /\ selLog[k].g = {}

\* C31: a backend marked unhealthy stays in the failed set until the timer of
\* the marking that inserted it fires, unless a full-pool reset cleared the
\* set: as long as the timer started by the inserting marking is pending and
\* no reset has happened, the backend is still in the failed set (no timer of
\* an earlier marking of the same backend restores it before).
C31_InsertingTimerPendingMeansFailed ==
  ~ResetSeen =>
    \A i \in 1..Len(timers) :
      (i <= Len(timerIns) /\ timerIns[i]) => timers[i].w \in failedWorkers

\* ---------------------------------------------------------------------- C32
\* C32: a response tagged fallback is produced only once the attempt bound is
\* reached with every attempt failed: the request that returns it has made 3
\* backend calls, each of them failed, and none got a success status; a
\* request that made fewer calls ends with another response, and a request of
\* main-worker.js one of whose calls succeeded ends with that backend's
\* response.
C32_FallbackOnlyAfterAllAttemptsFailed ==
  \A r \in Slots :
    req[r].pc = "done" =>
      /\ req[r].out.fallback =>
           /\ req[r].okAt = 0
           /\ req[r].nCall = maxRetries
           /\ Len(req[r].failedOn) = maxRetries
      /\ (variant = "main" /\ req[r].okAt # 0) => req[r].out.kind = "backend"
      /\ req[r].nCall < maxRetries => req[r].out.kind # "fallback"

C32_Witness ==
  \E r \in Slots :
    /\ req[r].pc = "done"
    /\ req[r].out.fallback
    /\ req[r].out.kind = "fallback"
    /\ req[r].okAt = 0
    /\ Len(req[r].failedOn) = maxRetries

\* ---------------------------------------------------------------------- C33
\* C33: a key granted to a caller stays that caller's until the caller
\* releases it or it has been held for more than 60 seconds: while a caller
\* that was granted a key has not released it and the grant is at most 60
\* seconds old, the key is active with the time of that grant, so no release
\* sent by a former holder has made it available.
C33_LeaseHeldUntilReleaseOrExpiry ==
  \A c \in Slots :
    ( /\ kmReq[c].out.success
      /\ ~kmReq[c].released
      /\ now - kmReq[c].out.grantedAt <= expiryTime )
    => /\ FindKey(kmKeys, kmReq[c].out.keyId).status = "active"
       /\ FindKey(kmKeys, kmReq[c].out.keyId).acquiredAt = kmReq[c].out.grantedAt

\* ---------------------------------------------------------------------- C34
\* What releaseKey(keyId) returns and leaves, applied to the key list keys.
ReleaseAsDocumented(keys, keyId, r) ==
  IF \A i \in 1..Len(keys) : keys[i].id # keyId
  THEN /\ ~r.success
       /\ r.error = "Key not found"
       /\ r.keys = keys
  ELSE /\ r.success
       /\ Len(r.keys) = Len(keys)
       /\ \A i \in 1..Len(keys) :
            IF keys[i].id = keyId
            THEN /\ r.keys[i].status = "available"
                 /\ r.keys[i].acquiredAt = Undefined
                 /\ r.keys[i].id = keys[i].id
                 /\ r.keys[i].apiKey = keys[i].apiKey
            ELSE r.keys[i] = keys[i]

\* C34: releaseKey with an id that is not in the pool returns success false
\* with the error 'Key not found' and changes no key; releaseKey of an
\* existing key leaves that key available with acquiredAt cleared, whether it
\* was active or not, and changes no other key.  This holds of the call on
\* every reachable key list and of every step of the release-key handler.
C34_ReleaseKeyEffect ==
  /\ [](\A k \in KeyIds : ReleaseAsDocumented(kmKeys, k, releaseKey(kmKeys, k)))
  /\ [][\A k \in KeyIds :
          HandleReleaseKey(k) =>
            LET pre == initializeKeys(kmInitialized, kmKeys,
                                      keyEnv["comparison"]).keys
            IN ReleaseAsDocumented(pre, k,
                 [success |-> \E i \in 1..Len(pre) : pre[i].id = k,
                  error |-> IF \E i \in 1..Len(pre) : pre[i].id = k
                            THEN "none" ELSE "Key not found",
                  keys |-> kmKeys'])]_vars

\* Key 1, granted to client 1 less than 60 seconds ago, has been released
\* while key 2 is still active.
C34_Witness ==
  /\ kmReq[1].out.success
  /\ kmReq[1].out.keyId = 1
  /\ now - kmReq[1].out.grantedAt <= expiryTime
  /\ Len(kmKeys) = 2
  /\ kmKeys[1].status = "available"
  /\ kmKeys[1].acquiredAt = Undefined
  /\ kmKeys[2].status = "active"

\* ---------------------------------------------------------------------- C35
\* C35: in every reachable state of the key manager each key is 'available'
\* or 'active', a key is active exactly when its acquiredAt is set, and
\* getStatus reports available + active = total, the length of the key list;
\* a call of getStatus leaves every key as it found it.
C35_StatusPartitionsKeys ==
  /\ \A i \in 1..Len(kmKeys) :
       /\ kmKeys[i].status \in {"available", "active"}
       /\ kmKeys[i].status = "active" <=> kmKeys[i].acquiredAt # Undefined
  /\ LET s == KeyManager_getStatus(kmKeys) IN
       /\ s.available + s.active = s.total
       /\ s.total = Len(kmKeys)
  /\ \A n \in 1..Len(statLog) :
       /\ statLog[n].left = statLog[n].seen
       /\ statLog[n].status.available + statLog[n].status.active
            = statLog[n].status.total
       /\ statLog[n].status.total = Len(statLog[n].seen)

C35_Witness ==
  /\ statLog # <<>>
  /\ statLog[1].status.total = 2
  /\ statLog[1].status.active = 1
  /\ statLog[1].status.available = 1
  /\ statLog[1].left = kmKeys

\* ---------------------------------------------------------------------- C36
\* C36: initializeKeys is idempotent.  Once the manager is initialized it
\* stays so, and no step, whatever env its handler is called with, changes
\* the length of the key list or the id and apiKey of a key; a key changes
\* only by being acquired now (when available or held for more than 60
\* seconds), by a release-key request for its id, or by the auto-release of a
\* key held for more than 60 seconds, so no active key is reset to available
\* by initializeKeys; and the call applied to the current
\* list with any env returns that list.
C36_InitializeKeysIdempotent ==
  /\ [](kmInitialized =>
          \A e \in ManagedEnvs :
            initializeKeys(kmInitialized, kmKeys, e).keys = kmKeys)
  /\ [][kmInitialized =>
          /\ kmInitialized'
          /\ Len(kmKeys') = Len(kmKeys)
          /\ \A i \in 1..Len(kmKeys) :
               /\ kmKeys'[i].id = kmKeys[i].id
               /\ kmKeys'[i].apiKey = kmKeys[i].apiKey
               /\ kmKeys'[i] # kmKeys[i] =>
                    \/ /\ kmKeys'[i].status = "active"
                       /\ kmKeys'[i].acquiredAt = now
                       /\ \/ kmKeys[i].status = "available"
                          \/ Expired(kmKeys[i], now)
                    \/ /\ kmKeys[i].status = "active"
                       /\ kmKeys'[i].status = "available"
                       /\ \/ HandleReleaseKey(kmKeys[i].id)
                          \/ Expired(kmKeys[i], now)]_vars

\* The manager holds an active key of a list built from another env than the
\* one its last request carried.
C36_Witness ==
  /\ kmInitialized
  /\ Len(Filter(keyEnv["comparison"], {Undefined})) # Len(kmKeys)
  /\ \E i \in 1..Len(kmKeys) : kmKeys[i].status = "active"

\* ---------------------------------------------------------------------- C39
\* C39: for every server tracked by loadbalancer.js the recorded failures
\* never exceed the recorded requests, so the success rate reported by
\* getServerStats is between 0% and 100%.
C39_FailuresAtMostRequests ==
  variant = "lb" =>
    LET report == getServerStats(serverStats, failedWorkers) IN
    \A w \in DOMAIN report :
      /\ report[w].failures <= report[w].requests
      /\ report[w].rated =>
           (report[w].successRate >= 0 /\ report[w].successRate <= 10000)

\* ---------------------------------------------------------------------- C37
\* C37: in loadbalancer.js the failed set is a subset of the current server
\* pool and every pool member has a stats entry, whatever the interleaving of
\* addServer, removeServer, the attempts of a call in flight and the restore
\* timers.
C37_FailedWithinPoolStatsForPool ==
  variant = "lb" =>
    /\ failedWorkers \subseteq Range(pool)
    /\ Range(pool) \subseteq DOMAIN serverStats

\* ---------------------------------------------------------------------- C38
\* C38: generateImage and compareImages never resolve without a result: a
\* call that has ended either returned a backend's data tagged with the
\* server selected on that attempt and an attempt number in 1..maxAttempts,
\* or threw 'All N server attempts failed' with N its maxAttempts, for every
\* pool reached through addServer and removeServer.
C38_CallEndsWithResultOrThrows ==
  \A r \in Slots :
    (variant = "lb" /\ req[r].pc = "done") =>
      \/ /\ req[r].out.kind = "backend"
         /\ req[r].out.worker = req[r].worker
         /\ req[r].out.attempt \in 1..req[r].maxAttempts
      \/ /\ req[r].out.kind = "thrown"
         /\ req[r].out.attempt = req[r].maxAttempts
         /\ req[r].maxAttempts >= 1

====
